---------------------------- MODULE Spec2Model ----------------------------
(***************************************************************************)
(* Model of src/webapp/src/app/page.tsx: the task classifier, the markdown *)
(* converter, the knowledge-base chunker, the chunk export/import codec    *)
(* and the part of the Home component that owns the knowledge text and the *)
(* chunk set.                                                              *)
(*                                                                         *)
(* A JavaScript string is a sequence of one-element strings ("atoms"):     *)
(* usually one character, sometimes a word that the code never looks into  *)
(* (a JSON key, the literal "manual-entry").                               *)
(***************************************************************************)
EXTENDS Integers, Sequences, FiniteSets, TLC

VARIABLES
    \* one call of chunkKnowledgeBase(text, chunkSize, overlap), step by step
    ckPc,          \* "idle" | "start" | "paragraph" | "slice" | "returned"
    ckText,        \* argument text
    ckSize,        \* argument chunkSize
    ckOverlap,     \* argument overlap
    ckParagraphs,  \* const paragraphs
    ckIdx,         \* position of paragraphs.forEach (1-based, next to visit)
    ckBuffer,      \* let buffer
    ckRawChunks,   \* const rawChunks
    ckI,           \* loop variable i of the hard-slice loop
    ckChunks,      \* the returned KcsChunk[]
    \* one call of classifyTask(text)
    clPc,          \* "idle" | "called" | "returned"
    clText,        \* argument text
    clResult,      \* the returned {urgent, important, rationale}
    \* one call of convertIrToMarkdown(raw)
    nmPc,          \* "idle" | "called" | "returned"
    nmRaw,         \* argument raw
    nmResult,      \* the returned markdown
    \* buildKcsExport and parseKcsUpload called on their own
    cdPc,          \* "idle" | "chunks" | "payload" | "parsed"
    cdChunks,      \* argument chunks of buildKcsExport
    cdFormat,      \* argument format of buildKcsExport
    cdFile,        \* the uploaded file, when the payload is one
    cdPayload,     \* the text buildKcsExport returned, or the file's text
    cdResult,      \* what parseKcsUpload returned or that it threw
    \* the Home component
    kcsRaw,        \* useState kcsRaw
    kcsChunks,     \* useState kcsChunks
    kcsStatus,     \* useState kcsStatus
    upPc,          \* handleKcsUpload: "idle" | "reading" ("off": no Home)
    upFile,        \* the file handleKcsUpload is reading
    clock,         \* the time, which also seeds createId
    \* the start of the Home component: its effects and localStorage
    storage,       \* localStorage: the item under each of the five keys
    storedBefore,  \* localStorage as it was before the component mounted
    rendered,      \* the state the last render saw
    queued,        \* the state after the setState calls made since
    effects,       \* the effects of the last commit still to run, in order
    loadRan        \* the hydration effect has run

chunkerVars == <<ckPc, ckText, ckSize, ckOverlap, ckParagraphs, ckIdx,
                 ckBuffer, ckRawChunks, ckI, ckChunks>>

classifierVars == <<clPc, clText, clResult>>

normalizerVars == <<nmPc, nmRaw, nmResult>>

codecVars == <<cdPc, cdChunks, cdFormat, cdFile, cdPayload, cdResult>>

homeVars == <<kcsRaw, kcsChunks, kcsStatus, upPc, upFile, clock>>

startupVars == <<storage, storedBefore, rendered, queued, effects, loadRan>>

vars == <<chunkerVars, classifierVars, normalizerVars, codecVars, homeVars,
          startupVars>>

\* what an action of one component leaves alone
notChunkerVars ==
    <<classifierVars, normalizerVars, codecVars, homeVars, startupVars>>

notClassifierVars ==
    <<chunkerVars, normalizerVars, codecVars, homeVars, startupVars>>

notNormalizerVars ==
    <<chunkerVars, classifierVars, codecVars, homeVars, startupVars>>

notCodecVars ==
    <<chunkerVars, classifierVars, normalizerVars, homeVars, startupVars>>

notHomeVars ==
    <<chunkerVars, classifierVars, normalizerVars, codecVars, startupVars>>

notStartupVars ==
    <<chunkerVars, classifierVars, normalizerVars, codecVars, homeVars>>

-----------------------------------------------------------------------------
(* Bounds of the model *)

MaxTextLen == 5

MaxChunkSize == 4

MaxOverlap == 3

\* phrases per task title
MaxPhrases == 2

\* chunks per exported sequence
MaxExportChunks == 2

\* lines or array elements per uploaded file
MaxFileEntries == 2

\* lines or array elements per file uploaded to Home
MaxUploadEntries == 2

\* chunking and import operations per run of Home
MaxClock == 3

\* sections of a text handed to convertIrToMarkdown
MaxSections == 2

\* the cap that stops a hard-slice loop that would never end by itself; a
\* loop with a positive step pushes at most one slice per character
MaxRawChunks == MaxTextLen + 8

-----------------------------------------------------------------------------
(* Generic helpers *)

Min(a, b) == IF a < b THEN a ELSE b

Max(a, b) == IF a > b THEN a ELSE b

SeqsUpTo(S, n) == UNION {[1..k -> S] : k \in 0..n}

\* the characters String.prototype.trim and the regex class \s treat as space
Whitespace == {" ", "\n", "\r", "\t"}

RECURSIVE TrimStart(_)
TrimStart(s) ==
    IF s # <<>> /\ Head(s) \in Whitespace THEN TrimStart(Tail(s)) ELSE s

RECURSIVE TrimEnd(_)
TrimEnd(s) ==
    IF s # <<>> /\ s[Len(s)] \in Whitespace
    THEN TrimEnd(SubSeq(s, 1, Len(s) - 1))
    ELSE s

\* String.prototype.trim
Trim(s) == TrimEnd(TrimStart(s))

\* mutant of JsSlice: the window ends one character early
JsSliceShort(s, a, b) ==
    LET n    == Len(s)
        from == IF a < 0 THEN Max(n + a, 0) ELSE Min(a, n)
        to   == IF b < 0 THEN Max(n + b, 0) ELSE Min(b, n)
    IN  IF from >= to - 1 THEN <<>> ELSE SubSeq(s, from + 1, to - 1)

\* String.prototype.slice(a, b), negative indices counting from the end
JsSlice(s, a, b) ==
    LET n    == Len(s)
        from == IF a < 0 THEN Max(n + a, 0) ELSE Min(a, n)
        to   == IF b < 0 THEN Max(n + b, 0) ELSE Min(b, n)
    IN  IF from >= to THEN <<>> ELSE SubSeq(s, from + 1, to)

\* the k-th smallest element of a finite set of integers
KthSmallest(S, k) == CHOOSE x \in S : Cardinality({y \in S : y < x}) = k - 1

\* String.prototype.split(/\n{minRun,}/): the pieces between the maximal runs
\* of at least minRun newlines
SplitOnNewlines(s, minRun) ==
    LET RunEnd(i) ==   \* first position after the run of newlines at i
            IF \A j \in i..Len(s) : s[j] = "\n" THEN Len(s) + 1
            ELSE CHOOSE j \in i..Len(s) :
                     s[j] # "\n" /\ \A h \in i..(j - 1) : s[h] = "\n"
        starts == {i \in 1..Len(s) :
                      /\ s[i] = "\n"
                      /\ (i = 1 \/ s[i - 1] # "\n")
                      /\ RunEnd(i) - i >= minRun}
        n      == Cardinality(starts)
        From(k) == IF k = 1 THEN 1 ELSE RunEnd(KthSmallest(starts, k - 1))
        To(k)   == IF k = n + 1 THEN Len(s) ELSE KthSmallest(starts, k) - 1
    IN  [k \in 1..(n + 1) |-> SubSeq(s, From(k), To(k))]

\* w occurs in s
IsSubstring(w, s) ==
    \E o \in 0..(Len(s) - Len(w)) : SubSeq(s, o + 1, o + Len(w)) = w

\* Array.prototype.join(sep)
RECURSIVE Join(_, _)
Join(parts, sep) ==
    IF parts = <<>> THEN <<>>
    ELSE IF Len(parts) = 1 THEN parts[1]
    ELSE parts[1] \o sep \o Join(Tail(parts), sep)

\* x.map((paragraph) => paragraph.trim())
TrimAll(parts) == [k \in 1..Len(parts) |-> Trim(parts[k])]

NonEmpty(s) == s # <<>>

\* decimal digits of a natural number, as Number.prototype.toString prints it
DecDigits == <<"0", "1", "2", "3", "4", "5", "6", "7", "8", "9">>

RECURSIVE NatToStr(_)
NatToStr(n) ==
    IF n < 10 THEN <<DecDigits[n + 1]>>
    ELSE NatToStr(n \div 10) \o <<DecDigits[(n % 10) + 1]>>

NumToStr(n) == IF n < 0 THEN <<"-">> \o NatToStr(0 - n) ELSE NatToStr(n)

-----------------------------------------------------------------------------
(* createId, estimateTokens, simpleHash *)

\* createId(): a fresh identifier; the n-th identifier of the batch drawn at
\* time seed
CreateId(seed, n) == <<"#">> \o NatToStr(seed) \o <<"-">> \o NatToStr(n)

\* new Date().toISOString() at time now
IsoTime(now) == <<"T">> \o NatToStr(now)

\* number of maximal runs of non-space characters:
\* text.trim().split(/\s+/).filter(Boolean).length
WordCount(s) ==
    Cardinality({k \in 1..Len(s) :
        /\ s[k] \notin Whitespace
        /\ (k = 1 \/ s[k - 1] \in Whitespace)})

\* Math.max(1, Math.round(words * 1.25)); Math.round rounds halves up
EstimateTokens(s) == Max(1, (10 * WordCount(Trim(s)) + 4) \div 8)

\* String.prototype.charCodeAt for the characters the model uses
CharCode(c) ==
    CASE c = "\n" -> 10
      [] c = "\r" -> 13
      [] c = "\t" -> 9
      [] c = " "  -> 32
      [] c = "a"  -> 97
      [] c = "b"  -> 98
      [] c = "x"  -> 120
      [] c = "\"" -> 34
      [] c = "\\" -> 92
      [] c = "["  -> 91
      [] c = "{"  -> 123

\* a 32-bit word as two 16-bit limbs, so that no intermediate value leaves
\* the integers the checker computes with
Limb == 2 ^ 16

\* hash = (hash << 5) - hash + code; hash |= 0   (31 * hash + code mod 2^32)
HashStep(h, code) ==
    LET lo == 31 * h.lo + code
        hi == 31 * h.hi + (lo \div Limb)
    IN  [hi |-> hi % Limb, lo |-> lo % Limb]

RECURSIVE HashFold(_, _, _)
HashFold(s, i, h) ==
    IF i > Len(s) THEN h ELSE HashFold(s, i + 1, HashStep(h, CharCode(s[i])))

\* Math.abs of the signed reading of the word: the two's complement when the
\* sign bit is set
HashAbs(h) ==
    IF h.hi < Limb \div 2 THEN h
    ELSE IF h.lo = 0 THEN [hi |-> (Limb - h.hi) % Limb, lo |-> 0]
    ELSE [hi |-> Limb - 1 - h.hi, lo |-> Limb - h.lo]

Base36Digits ==
    <<"0", "1", "2", "3", "4", "5", "6", "7", "8", "9", "a", "b", "c", "d",
      "e", "f", "g", "h", "i", "j", "k", "l", "m", "n", "o", "p", "q", "r",
      "s", "t", "u", "v", "w", "x", "y", "z">>

\* Number.prototype.toString(36) of a non-negative two-limb number
RECURSIVE ToBase36(_)
ToBase36(h) ==
    LET t    == (h.hi % 36) * Limb + h.lo
        quot == [hi |-> h.hi \div 36, lo |-> t \div 36]
        d    == <<Base36Digits[(t % 36) + 1]>>
    IN  IF quot.hi = 0 /\ quot.lo = 0 THEN d ELSE ToBase36(quot) \o d

SimpleHash(s) == ToBase36(HashAbs(HashFold(s, 1, [hi |-> 0, lo |-> 0])))

-----------------------------------------------------------------------------
(* classifyTask *)

UpperLetters ==
    <<"A", "B", "C", "D", "E", "F", "G", "H", "I", "J", "K", "L", "M", "N",
      "O", "P", "Q", "R", "S", "T", "U", "V", "W", "X", "Y", "Z">>

LowerLetters ==
    <<"a", "b", "c", "d", "e", "f", "g", "h", "i", "j", "k", "l", "m", "n",
      "o", "p", "q", "r", "s", "t", "u", "v", "w", "x", "y", "z">>

Range(f) == {f[k] : k \in DOMAIN f}

LowerChar(c) ==
    IF c \in Range(UpperLetters)
    THEN LowerLetters[CHOOSE k \in 1..26 : UpperLetters[k] = c]
    ELSE c

\* String.prototype.toLowerCase
ToLowerCase(s) == [k \in 1..Len(s) |-> LowerChar(s[k])]

\* String.prototype.includes
Includes(s, w) == IsSubstring(w, s)

\* the regex class \w
WordChars == Range(UpperLetters) \cup Range(LowerLetters) \cup Range(DecDigits) \cup {"_"}

\* the regex assertion \b between positions i - 1 and i of s (i in 1..Len(s)+1)
WordBoundary(s, i) ==
    (i > 1 /\ s[i - 1] \in WordChars) # (i <= Len(s) /\ s[i] \in WordChars)

\* w occurs in s starting at position i
LitAt(s, i, w) ==
    i + Len(w) - 1 <= Len(s) /\ SubSeq(s, i, i + Len(w) - 1) = w

\* first position >= i of s whose character is not in set
RECURSIVE SkipSet(_, _, _)
SkipSet(s, i, set) ==
    IF i <= Len(s) /\ s[i] \in set THEN SkipSet(s, i + 1, set) ELSE i

\* sentinel for a regex that did not match (String.prototype.match gives null)
NoMatch == <<"<null>">>

\* lines 73-87
UrgentKeywords ==
    <<<<"u", "r", "g", "e", "n", "t">>,
      <<"a", "s", "a", "p">>,
      <<"t", "o", "d", "a", "y">>,
      <<"n", "o", "w">>,
      <<"i", "m", "m", "e", "d", "i", "a", "t", "e", "l", "y">>,
      <<"d", "e", "a", "d", "l", "i", "n", "e">>,
      <<"d", "u", "e">>,
      <<"t", "o", "n", "i", "g", "h", "t">>,
      <<"p", "r", "i", "o", "r", "i", "t", "y">>,
      <<"t", "h", "i", "s", " ", "h", "o", "u", "r">>,
      <<"f", "i", "r", "s", "t", " ", "t", "h", "i", "n", "g">>,
      <<"h", "u", "r", "r", "y">>,
      <<"e", "s", "c", "a", "l", "a", "t", "e", "d">>>>

\* lines 88-102
ImportantKeywords ==
    <<<<"i", "m", "p", "o", "r", "t", "a", "n", "t">>,
      <<"c", "r", "i", "t", "i", "c", "a", "l">>,
      <<"v", "i", "t", "a", "l">>,
      <<"s", "t", "r", "a", "t", "e", "g", "i", "c">>,
      <<"k", "e", "y">>,
      <<"g", "o", "a", "l">>,
      <<"m", "i", "l", "e", "s", "t", "o", "n", "e">>,
      <<"e", "s", "s", "e", "n", "t", "i", "a", "l">>,
      <<"i", "m", "p", "a", "c", "t">>,
      <<"l", "a", "u", "n", "c", "h">>,
      <<"c", "l", "i", "e", "n", "t">>,
      <<"r", "e", "v", "i", "e", "w">>,
      <<"p", "l", "a", "n", "n", "i", "n", "g">>>>

\* line 103
DelegateKeywords ==
    <<<<"d", "e", "l", "e", "g", "a", "t", "e">>,
      <<"h", "a", "n", "d", "o", "f", "f">>,
      <<"a", "s", "s", "i", "g", "n">>,
      <<"a", "s", "s", "i", "s", "t">>,
      <<"s", "u", "p", "p", "o", "r", "t">>>>

\* line 104
EliminateKeywords ==
    <<<<"l", "a", "t", "e", "r">>,
      <<"s", "o", "m", "e", "d", "a", "y">>,
      <<"o", "p", "t", "i", "o", "n", "a", "l">>,
      <<"n", "i", "c", "e", " ", "t", "o">>,
      <<"m", "a", "y", "b", "e">>,
      <<"w", "h", "e", "n", "e", "v", "e", "r">>>>

\* line 111: (in|within)
SoonLeads ==
    <<<<"i", "n">>,
      <<"w", "i", "t", "h", "i", "n">>>>

\* line 111: (minutes?|hours?|days?), the longer reading first
SoonUnits ==
    <<<<"m", "i", "n", "u", "t", "e", "s">>,
      <<"m", "i", "n", "u", "t", "e">>,
      <<"h", "o", "u", "r", "s">>,
      <<"h", "o", "u", "r">>,
      <<"d", "a", "y", "s">>,
      <<"d", "a", "y">>>>

\* line 112: the alternatives of the date pattern
DateWords ==
    <<<<"m", "o", "n">>,
      <<"t", "u", "e">>,
      <<"w", "e", "d">>,
      <<"t", "h", "u">>,
      <<"f", "r", "i">>,
      <<"s", "a", "t">>,
      <<"s", "u", "n">>,
      <<"t", "o", "m", "o", "r", "r", "o", "w">>,
      <<"t", "o", "n", "i", "g", "h", "t">>,
      <<"t", "o", "d", "a", "y">>>>

\* line 117: the alternatives of the high-value pattern
HighValueWords ==
    <<<<"r", "e", "p", "o", "r", "t">>,
      <<"p", "r", "e", "s", "e", "n", "t", "a", "t", "i", "o", "n">>,
      <<"r", "e", "s", "e", "a", "r", "c", "h">>,
      <<"a", "n", "a", "l", "y", "s", "i", "s">>,
      <<"s", "t", "r", "a", "t", "e", "g", "y">>,
      <<"r", "o", "a", "d", "m", "a", "p">>>>

\* keywords.filter((keyword) => content.includes(keyword))
MatchedKeywords(keywords, content) ==
    SelectSeq(keywords, LAMBDA w : Includes(content, w))

\* the end (exclusive) of a match of
\* /\b(in|within)\s+\d+\s*(minutes?|hours?|days?)\b/ starting at position i,
\* or 0 when the pattern does not match there
SoonMatchEnd(s, i) ==
    IF ~WordBoundary(s, i) THEN 0
    ELSE LET EndFor(lead, unit) ==
                 LET j == i + Len(lead)
                     k == SkipSet(s, j, Whitespace)
                     l == SkipSet(s, k, Range(DecDigits))
                     m == SkipSet(s, l, Whitespace)
                 IN  IF /\ LitAt(s, i, lead)
                        /\ k > j
                        /\ l > k
                        /\ LitAt(s, m, unit)
                        /\ WordBoundary(s, m + Len(unit))
                     THEN m + Len(unit)
                     ELSE 0
             ends == {EndFor(lead, unit) :
                         lead \in Range(SoonLeads), unit \in Range(SoonUnits)}
         IN  CHOOSE e \in ends : \A f \in ends : f <= e

\* the end (exclusive) of a match of /\b(w1|w2|...)\b/ starting at position
\* i, or 0
WholeWordEnd(s, i, words) ==
    IF ~WordBoundary(s, i) THEN 0
    ELSE LET ends == {i + Len(w) : w \in
                         {w \in Range(words) :
                             LitAt(s, i, w) /\ WordBoundary(s, i + Len(w))}}
         IN  IF ends = {} THEN 0 ELSE CHOOSE e \in ends : TRUE

\* String.prototype.match without the g flag: the text of the leftmost match,
\* matchEnd[i] giving the end of the match that starts at i
FirstMatch(s, matchEnd) ==
    LET starts == {i \in 1..Len(s) : matchEnd[i] # 0}
    IN  IF starts = {} THEN NoMatch
        ELSE LET i == CHOOSE a \in starts : \A b \in starts : a <= b
             IN  SubSeq(s, i, matchEnd[i] - 1)

SoonMatch(content) ==
    FirstMatch(content, [i \in 1..Len(content) |-> SoonMatchEnd(content, i)])

DateMatchEnd(s, i) == WholeWordEnd(s, i, DateWords)

DateMatch(content) ==
    FirstMatch(content, [i \in 1..Len(content) |-> DateMatchEnd(content, i)])

HighValueEnd(s, i) == WholeWordEnd(s, i, HighValueWords)

\* /\b(report|presentation|research|analysis|strategy|roadmap)\b/.test
HighValueTest(content) ==
    FirstMatch(content, [i \in 1..Len(content) |-> HighValueEnd(content, i)])
        # NoMatch

\* mutant of RationaleParts: every urgency case that holds is appended, not
\* the first one only
RationalePartsAllCases(matchedUrgent, soonMatch, dateMatch, matchedImportant, matchedDelegate, matchedEliminate) ==
    LET Part(kind, matched) ==
            IF matched # <<>>
            THEN <<[kind |-> kind, detail |-> Join(matched, <<",", " ">>)]>>
            ELSE <<>>
        Quoted(kind, match) ==
            IF match # NoMatch THEN <<[kind |-> kind, detail |-> match]>>
            ELSE <<>>
        parts == Part("Flagged urgent via", matchedUrgent)
                 \o Quoted("Time-bound phrase", soonMatch)
                 \o Quoted("Near-term schedule reference", dateMatch)
                 \o Part("High-impact cues", matchedImportant)
                 \o Part("Delegation hint", matchedDelegate)
                 \o Part("Low-priority phrasing", matchedEliminate)
    IN  IF parts = <<>>
        THEN <<[kind |-> "Default review classification", detail |-> <<>>]>>
        ELSE parts

\* lines 130-154: the rationale fragments, each a kind with its detail
RationaleParts(matchedUrgent, soonMatch, dateMatch, matchedImportant, matchedDelegate, matchedEliminate) ==
    LET urgency ==
            IF matchedUrgent # <<>>
            THEN <<[kind |-> "Flagged urgent via",
                    detail |-> Join(matchedUrgent, <<",", " ">>)]>>
            ELSE IF soonMatch # NoMatch
            THEN <<[kind |-> "Time-bound phrase", detail |-> soonMatch]>>
            ELSE IF dateMatch # NoMatch
            THEN <<[kind |-> "Near-term schedule reference",
                    detail |-> dateMatch]>>
            ELSE <<>>
        importance ==
            IF matchedImportant # <<>>
            THEN <<[kind |-> "High-impact cues",
                    detail |-> Join(matchedImportant, <<",", " ">>)]>>
            ELSE <<>>
        delegation ==
            IF matchedDelegate # <<>>
            THEN <<[kind |-> "Delegation hint",
                    detail |-> Join(matchedDelegate, <<",", " ">>)]>>
            ELSE <<>>
        elimination ==
            IF matchedEliminate # <<>>
            THEN <<[kind |-> "Low-priority phrasing",
                    detail |-> Join(matchedEliminate, <<",", " ">>)]>>
            ELSE <<>>
        parts == urgency \o importance \o delegation \o elimination
    IN  IF parts = <<>>
        THEN <<[kind |-> "Default review classification", detail |-> <<>>]>>
        ELSE parts

\* the character U+00B7 of the separator in line 156
MiddleDot == "U+00B7"

\* lines 133-153: the template strings the fragments are pushed as
RenderPart(part) ==
    CASE part.kind = "Flagged urgent via" ->
             <<"Flagged urgent via ">> \o part.detail
      [] part.kind = "Time-bound phrase" ->
             <<"Time-bound phrase ", "\"">> \o part.detail \o <<"\"">>
      [] part.kind = "Near-term schedule reference" ->
             <<"Near-term schedule reference ", "\"">> \o part.detail
                 \o <<"\"">>
      [] part.kind = "High-impact cues" ->
             <<"High-impact cues: ">> \o part.detail
      [] part.kind = "Delegation hint" ->
             <<"Delegation hint: ">> \o part.detail
      [] part.kind = "Low-priority phrasing" ->
             <<"Low-priority phrasing: ">> \o part.detail
      [] part.kind = "Default review classification" ->
             <<"Default review classification">>

\* line 156: rationaleParts.join(" \u00B7 ")
RationaleText(parts) ==
    Join([k \in 1..Len(parts) |-> RenderPart(parts[k])],
         <<" ", MiddleDot, " ">>)

\* mutant of ApplyOverrides: the eliminate override forgets the urgent flag
ApplyOverridesKeepUrgent(urgent, important, matchedDelegate, matchedEliminate) ==
    [urgent |-> urgent,
     important |-> IF matchedDelegate # <<>> \/ matchedEliminate # <<>>
                   THEN FALSE
                   ELSE important]

\* mutant of ApplyOverrides: the delegate override is missing
ApplyOverridesNoDelegate(urgent, important, matchedDelegate, matchedEliminate) ==
    IF matchedEliminate # <<>>
    THEN [urgent |-> FALSE, important |-> FALSE]
    ELSE [urgent |-> urgent, important |-> important]

\* lines 121-128: the delegate override, then the eliminate override
ApplyOverrides(urgent, important, matchedDelegate, matchedEliminate) ==
    LET delegated == IF matchedDelegate # <<>> THEN FALSE ELSE important
    IN  IF matchedEliminate # <<>>
        THEN [urgent |-> FALSE, important |-> FALSE]
        ELSE [urgent |-> urgent, important |-> delegated]

\* lines 71-157
ClassifyTask(text) ==
    LET content          == ToLowerCase(text)
        matchedUrgent    == MatchedKeywords(UrgentKeywords, content)
        matchedImportant == MatchedKeywords(ImportantKeywords, content)
        matchedDelegate  == MatchedKeywords(DelegateKeywords, content)
        matchedEliminate == MatchedKeywords(EliminateKeywords, content)
        soonMatch        == SoonMatch(content)
        dateMatch        == DateMatch(content)
        urgent           == \/ matchedUrgent # <<>>
                            \/ soonMatch # NoMatch
                            \/ dateMatch # NoMatch
        important        == \/ matchedImportant # <<>>
                            \/ HighValueTest(content)
        flags            == ApplyOverrides(urgent, important, matchedDelegate,
                                           matchedEliminate)
    IN  [urgent |-> flags.urgent,
         important |-> flags.important,
         rationale |-> RationaleText(
             RationaleParts(matchedUrgent, soonMatch, dateMatch,
                            matchedImportant, matchedDelegate,
                            matchedEliminate))]

\* the phrases the task titles of the model are built from
Vocabulary ==
    <<<<"u", "r", "g", "e", "n", "t">>,
      <<"k", "n", "o", "w">>,
      <<"i", "n", " ", "2", " ", "d", "a", "y", "s">>,
      <<"w", "i", "t", "h", "i", "n", " ", "1", "0", "h", "o", "u", "r", "s">>,
      <<"m", "o", "n">>,
      <<"m", "o", "n", "d", "a", "y">>,
      <<"c", "l", "i", "e", "n", "t">>,
      <<"r", "e", "p", "o", "r", "t">>,
      <<"r", "e", "p", "o", "r", "t", "s">>,
      <<"d", "e", "l", "e", "g", "a", "t", "e">>,
      <<"S", "o", "m", "e", "d", "a", "y">>,
      <<"c", "o", "l", "l", "a", "t", "e", "r", "a", "l">>,
      <<"s", "a", "m">>>>

\* the task titles the specification names, and one with every kind of cue
ExampleTitles ==
    <<<<"u", "r", "g", "e", "n", "t", " ", "c", "l", "i", "e", "n", "t", " ", "r", "e", "v", "i", "e", "w">>,
      <<"d", "e", "l", "e", "g", "a", "t", "e", " ", "t", "h", "e", " ", "r", "e", "p", "o", "r", "t", " ", "t", "o", " ", "S", "a", "m">>,
      <<"s", "o", "m", "e", "d", "a", "y">>,
      <<"u", "r", "g", "e", "n", "t", " ", "c", "l", "i", "e", "n", "t", " ", "r", "e", "v", "i", "e", "w", " ", "f", "o", "r", " ", "t", "o", "m", "o", "r", "r", "o", "w", ",", " ", "m", "a", "y", "b", "e", " ", "l", "a", "t", "e", "r">>>>

-----------------------------------------------------------------------------
(* chunkKnowledgeBase *)

\* text.replace(/\r/g, "").trim()
NormalizeText(text) == Trim(SelectSeq(text, LAMBDA c : c # "\r"))

\* normalized.split(/\n{2,}/).map(trim).filter(Boolean)
SplitParagraphs(normalized) ==
    SelectSeq(TrimAll(SplitOnNewlines(normalized, 2)), NonEmpty)

\* rawChunks.map((chunk, index) => ({...})) with one shared timestamp
WrapChunk(content, index, now) ==
    [id |-> CreateId(now, index),
     content |-> content,
     metadata |-> [chunkIndex |-> index,
                   createdAt |-> IsoTime(now),
                   source |-> <<"manual-entry">>,
                   tokenEstimate |-> EstimateTokens(content),
                   hash |-> SimpleHash(content)]]

WrapChunks(rawChunks, now) ==
    [k \in 1..Len(rawChunks) |-> WrapChunk(rawChunks[k], k - 1, now)]

\* mutant of Candidate: the paragraph is appended without the blank line
CandidateNoBlankLine(buffer, paragraph) == buffer \o paragraph

\* line 208: const candidate = buffer ? `${buffer}\n\n${paragraph}` : paragraph
Candidate(buffer, paragraph) ==
    IF buffer # <<>> THEN buffer \o <<"\n", "\n">> \o paragraph ELSE paragraph

\* lines 214-216 and 228-230: if (buffer) rawChunks.push(buffer)
Flush(rawChunks, buffer) ==
    IF buffer # <<>> THEN Append(rawChunks, buffer) ELSE rawChunks

\* lines 228-234: the trailing flush and the fallback to the whole text
FinalRawChunks(rawChunks, buffer, normalized) ==
    LET flushed == Flush(rawChunks, buffer)
    IN  IF flushed = <<>> THEN <<normalized>> ELSE flushed

\* lines 221-223 run to their end, for a positive step
RECURSIVE SlicesFrom(_, _, _, _)
SlicesFrom(paragraph, i, chunkSize, step) ==
    IF i >= Len(paragraph) THEN <<>>
    ELSE <<JsSlice(paragraph, i, i + chunkSize)>>
         \o SlicesFrom(paragraph, i + step, chunkSize, step)

\* lines 207-226 run to their end from paragraph k on: the raw chunks and the
\* buffer after the forEach
RECURSIVE PackFrom(_, _, _, _, _, _)
PackFrom(paragraphs, k, buffer, rawChunks, chunkSize, overlap) ==
    IF k > Len(paragraphs) THEN [buffer |-> buffer, rawChunks |-> rawChunks]
    ELSE LET paragraph == paragraphs[k]
             candidate == Candidate(buffer, paragraph)
         IN  IF Len(candidate) <= chunkSize
             THEN PackFrom(paragraphs, k + 1, candidate, rawChunks, chunkSize,
                           overlap)
             ELSE IF Len(paragraph) <= chunkSize
             THEN PackFrom(paragraphs, k + 1, paragraph,
                           Flush(rawChunks, buffer), chunkSize, overlap)
             ELSE PackFrom(paragraphs, k + 1, <<>>,
                           Flush(rawChunks, buffer)
                           \o SlicesFrom(paragraph, 0, chunkSize,
                                         chunkSize - overlap),
                           chunkSize, overlap)

\* lines 199-249 as one synchronous call at time now, for overlap < chunkSize
ChunkKnowledgeBase(text, chunkSize, overlap, now) ==
    LET normalized == NormalizeText(text)
        packed     == PackFrom(SplitParagraphs(normalized), 1, <<>>, <<>>,
                               chunkSize, overlap)
    IN  IF normalized = <<>> THEN <<>>
        ELSE WrapChunks(FinalRawChunks(packed.rawChunks, packed.buffer,
                                       normalized), now)

ChunkAlphabet == {"a", "b", "\n"}

\* texts with carriage returns: CRLF line ends, a CR inside a word
CarriageReturnTexts ==
    {<<"a", "\r", "\n", "\r", "\n", "b">>, <<"\r", "a", "\r", "b", "\r">>,
     <<"a", "a", "\n", "\r", "\n", "b", "b", "b">>}

\* texts of three paragraphs, where two short paragraphs fit one chunk of
\* four characters: three short ones, two short ones before and after a long
\* one, and a longer one before two short ones
PackingTexts ==
    {<<"a", "\n", "\n", "b", "\n", "\n", "a">>,
     <<"a", "\n", "\n", "b", "\n", "\n", "a", "b", "a", "b", "a">>,
     <<"a", "b", "a", "b", "a", "\n", "\n", "a", "\n", "\n", "b">>,
     <<"a", "b", "\n", "\n", "a", "\n", "\n", "b">>}

ChunkTexts ==
    SeqsUpTo(ChunkAlphabet, MaxTextLen) \cup CarriageReturnTexts
        \cup PackingTexts

ChunkSizes == (0 - 1)..MaxChunkSize

Overlaps == 0..MaxOverlap

ChunkerInit ==
    /\ ckPc = "start"
    /\ ckText \in ChunkTexts
    /\ ckSize \in ChunkSizes
    /\ ckOverlap \in Overlaps
    /\ ckParagraphs = <<>>
    /\ ckIdx = 1
    /\ ckBuffer = <<>>
    /\ ckRawChunks = <<>>
    /\ ckI = 0
    /\ ckChunks = <<>>

ChunkerIdle ==
    /\ ckPc = "idle"
    /\ ckText = <<>>
    /\ ckSize = 0
    /\ ckOverlap = 0
    /\ ckParagraphs = <<>>
    /\ ckIdx = 1
    /\ ckBuffer = <<>>
    /\ ckRawChunks = <<>>
    /\ ckI = 0
    /\ ckChunks = <<>>

\* lines 200-205: normalize, return [] for blank text, split into paragraphs
ChunkStart ==
    /\ UNCHANGED notChunkerVars
    /\ ckPc = "start"
    /\ LET normalized == NormalizeText(ckText)
       IN  IF normalized = <<>>
           THEN /\ ckPc' = "returned"
                /\ ckParagraphs' = <<>>
           ELSE /\ ckPc' = "paragraph"
                /\ ckParagraphs' = SplitParagraphs(normalized)
    /\ UNCHANGED <<ckText, ckSize, ckOverlap, ckIdx, ckBuffer, ckRawChunks,
                   ckI, ckChunks>>

\* lines 207-220: one call of the forEach callback, up to the hard-slice loop
ChunkParagraph ==
    /\ UNCHANGED notChunkerVars
    /\ ckPc = "paragraph"
    /\ ckIdx <= Len(ckParagraphs)
    /\ LET paragraph == ckParagraphs[ckIdx]
           candidate == Candidate(ckBuffer, paragraph)
       IN  IF Len(candidate) <= ckSize
           THEN /\ ckBuffer' = candidate
                /\ ckIdx' = ckIdx + 1
                /\ UNCHANGED <<ckPc, ckRawChunks, ckI>>
           ELSE IF Len(paragraph) <= ckSize
           THEN /\ ckRawChunks' = Flush(ckRawChunks, ckBuffer)
                /\ ckBuffer' = paragraph
                /\ ckIdx' = ckIdx + 1
                /\ UNCHANGED <<ckPc, ckI>>
           ELSE /\ ckRawChunks' = Flush(ckRawChunks, ckBuffer)
                /\ ckPc' = "slice"
                /\ ckI' = 0
                /\ UNCHANGED <<ckBuffer, ckIdx>>
    /\ UNCHANGED <<ckText, ckSize, ckOverlap, ckParagraphs, ckChunks>>

\* lines 221-223: one iteration of the hard-slice loop
ChunkSlice ==
    /\ UNCHANGED notChunkerVars
    /\ ckPc = "slice"
    /\ ckI < Len(ckParagraphs[ckIdx])
    /\ Len(ckRawChunks) < MaxRawChunks
    /\ ckRawChunks' =
           Append(ckRawChunks, JsSlice(ckParagraphs[ckIdx], ckI, ckI + ckSize))
    /\ ckI' = ckI + (ckSize - ckOverlap)
    /\ UNCHANGED <<ckPc, ckText, ckSize, ckOverlap, ckParagraphs, ckIdx,
                   ckBuffer, ckChunks>>

\* lines 221, 224: the loop condition fails, the buffer is reset
ChunkSliceExit ==
    /\ UNCHANGED notChunkerVars
    /\ ckPc = "slice"
    /\ ckI >= Len(ckParagraphs[ckIdx])
    /\ ckBuffer' = <<>>
    /\ ckIdx' = ckIdx + 1
    /\ ckPc' = "paragraph"
    /\ UNCHANGED <<ckText, ckSize, ckOverlap, ckParagraphs, ckRawChunks, ckI,
                   ckChunks>>

\* lines 228-248: flush the trailing buffer, fall back to the whole text,
\* wrap the raw chunks
ChunkFinish ==
    /\ UNCHANGED notChunkerVars
    /\ ckPc = "paragraph"
    /\ ckIdx > Len(ckParagraphs)
    /\ ckRawChunks' = FinalRawChunks(ckRawChunks, ckBuffer, NormalizeText(ckText))
    /\ ckChunks' = WrapChunks(ckRawChunks', 0)
    /\ ckPc' = "returned"
    /\ UNCHANGED <<ckText, ckSize, ckOverlap, ckParagraphs, ckIdx, ckBuffer,
                   ckI>>

ChunkerNext ==
    \/ ChunkStart
    \/ ChunkParagraph
    \/ ChunkSlice
    \/ ChunkSliceExit
    \/ ChunkFinish

-----------------------------------------------------------------------------
(* Properties of chunkKnowledgeBase *)

ValidConfig == 0 <= ckOverlap /\ ckOverlap < ckSize

\* the whitespace-delimited words of s
WordsOf(s) ==
    {SubSeq(s, i, j) : <<i, j>> \in
        {<<i, j>> \in (1..Len(s)) \X (1..Len(s)) :
            /\ i <= j
            /\ \A k \in i..j : s[k] \notin Whitespace
            /\ (i = 1 \/ s[i - 1] \in Whitespace)
            /\ (j = Len(s) \/ s[j + 1] \in Whitespace)}}

InputParagraphs == SplitParagraphs(NormalizeText(ckText))

ChunkContents == [k \in 1..Len(ckChunks) |-> ckChunks[k].content]

\* the step-by-step run returns what the call computed in one go returns
ChunkerAgrees ==
    (ckPc = "returned" /\ ckOverlap < ckSize) =>
        ckChunks = ChunkKnowledgeBase(ckText, ckSize, ckOverlap, 0)

\* C1 (as claimed): a configuration with overlap >= chunkSize or with a
\* non-positive chunkSize is rejected, so the hard-slice window loop never runs
\* under it: whenever the loop is running its step chunkSize - overlap is
\* positive and the loop variable advances towards the end of the paragraph.
C1_InvalidConfigRejected ==
    ckPc = "slice" => (ckSize > 0 /\ ckSize - ckOverlap > 0)

\* the slices the running hard-slice loop has pushed so far (for a positive
\* step): the last ckI / step raw chunks
SlicesPushed ==
    LET k == ckI \div (ckSize - ckOverlap)
    IN  SubSeq(ckRawChunks, Len(ckRawChunks) - k + 1, Len(ckRawChunks))

\* C5 (as claimed): with 0 <= overlap < chunkSize every returned chunk has
\* length <= chunkSize, and when the hard-slice loop of a paragraph ends every
\* slice of the paragraph but the last has length exactly chunkSize.
C5_SliceLengths ==
    ValidConfig =>
        /\ ckPc = "returned" =>
               \A k \in 1..Len(ckChunks) : Len(ckChunks[k].content) <= ckSize
        /\ (ckPc = "slice" /\ ckI >= Len(ckParagraphs[ckIdx])) =>
               \A k \in 1..(Len(SlicesPushed) - 1) :
                   Len(SlicesPushed[k]) = ckSize

\* C6 (as claimed): with 0 <= overlap < chunkSize every whitespace-delimited
\* word of the input occurs whole inside the content of at least one chunk.
C6_EveryWordWhole ==
    (ckPc = "returned" /\ ValidConfig) =>
        \A w \in WordsOf(ckText) :
            \E k \in 1..Len(ckChunks) : IsSubstring(w, ckChunks[k].content)

\* C6 (amended): with 0 <= overlap < chunkSize, every paragraph that is not
\* longer than chunkSize (and so every word in it) occurs whole inside one
\* chunk; every character of a longer paragraph lies in one of its slices; and
\* when no paragraph is longer than chunkSize, joining the chunk contents with a
\* blank line gives the paragraphs joined with a blank line.
C6_ParagraphsPreserved ==
    (ckPc = "returned" /\ ValidConfig) =>
        /\ \A n \in 1..Len(InputParagraphs) :
               LET p == InputParagraphs[n]
               IN  IF Len(p) <= ckSize
                   THEN /\ \E k \in 1..Len(ckChunks) :
                               IsSubstring(p, ckChunks[k].content)
                        /\ \A w \in WordsOf(p) :
                               \E k \in 1..Len(ckChunks) :
                                   IsSubstring(w, ckChunks[k].content)
                   ELSE \A pos \in 1..Len(p) :
                            \E k \in 1..Len(ckChunks) :
                                LET c == ckChunks[k].content
                                IN  \E o \in (pos - Len(c))..(pos - 1) :
                                        /\ o >= 0
                                        /\ o + Len(c) <= Len(p)
                                        /\ SubSeq(p, o + 1, o + Len(c)) = c
        /\ (\A n \in 1..Len(InputParagraphs) :
                Len(InputParagraphs[n]) <= ckSize) =>
               Join(ChunkContents, <<"\n", "\n">>) =
                   Join(InputParagraphs, <<"\n", "\n">>)

\* C6 witness: a returned run with a short paragraph kept whole and a longer
\* paragraph cut into several slices
C6_Witness ==
    /\ ckPc = "returned"
    /\ ValidConfig
    /\ \E n \in 1..Len(InputParagraphs) : Len(InputParagraphs[n]) <= ckSize
    /\ \E n \in 1..Len(InputParagraphs) : Len(InputParagraphs[n]) > ckSize
    /\ Len(ckChunks) >= 3

\* the paragraph the forEach callback is visiting
Visited == ckParagraphs[ckIdx]

\* paragraph fits the chunk the buffer is building
Fits(buffer, paragraph) ==
    IF buffer = <<>> THEN Len(paragraph) <= ckSize
    ELSE Len(buffer) + 2 + Len(paragraph) <= ckSize

\* the buffer holds consecutive paragraphs, whole and in input order, the last
\* of them the paragraph at position last
HoldsRunUpTo(buffer, last) ==
    \E first \in 1..last :
        buffer = Join(SubSeq(ckParagraphs, first, last), <<"\n", "\n">>)

\* one step of the forEach callback packs greedily
PacksGreedily ==
    /\ \* a chunk is closed only when the visited paragraph does not fit it,
       \* and it is the buffer as it stands
       ckRawChunks' # ckRawChunks =>
           /\ ckBuffer # <<>>
           /\ Len(ckBuffer) + 2 + Len(Visited) > ckSize
           /\ ckRawChunks' = Append(ckRawChunks, ckBuffer)
    /\ \* a paragraph that fits is appended behind a blank line
       Fits(ckBuffer, Visited) =>
           /\ ckRawChunks' = ckRawChunks
           /\ ckBuffer' = Candidate(ckBuffer, Visited)
    /\ \* a paragraph that is not too long is kept whole, in input order
       Len(Visited) <= ckSize =>
           /\ ckPc' = "paragraph"
           /\ HoldsRunUpTo(ckBuffer', ckIdx)
    /\ \* a paragraph that is too long goes to the hard-slice loop after the
       \* buffer before it has been flushed
       Len(Visited) > ckSize =>
           /\ ckPc' = "slice"
           /\ ckRawChunks' = Flush(ckRawChunks, ckBuffer)

\* one step of the hard-slice loop keeps the long paragraph apart
SlicesApart ==
    /\ ckPc' = "slice" =>
           \E piece \in {SubSeq(Visited, a, b) :
                            a \in 1..Len(Visited), b \in 1..Len(Visited)} :
               ckRawChunks' = Append(ckRawChunks, piece)
    /\ ckPc' = "paragraph" => (ckBuffer' = <<>> /\ ckRawChunks' = ckRawChunks)

\* C13: with 0 <= overlap < chunkSize the paragraphs are packed greedily and
\* in input order: a paragraph of length <= chunkSize is never split; the
\* buffer is closed as a chunk before a paragraph only when appending that
\* paragraph behind a blank line would make it longer than chunkSize; a
\* paragraph longer than chunkSize is not merged with a neighbour: the buffer
\* before it is flushed as its own chunk, its slices hold nothing else, and
\* the buffer is empty after them.
C13_GreedyPacking ==
    [][(ValidConfig /\ ckPc = "paragraph" /\ ckPc' # "returned"
            => PacksGreedily)
       /\ (ValidConfig /\ ckPc = "slice" => SlicesApart)]_vars

\* C13 witness: a returned run of three paragraphs, two short ones merged
\* into one chunk before a long one that has been cut into slices
C13_Witness ==
    /\ ckPc = "returned"
    /\ ValidConfig
    /\ Len(InputParagraphs) = 3
    /\ Len(InputParagraphs[3]) > ckSize
    /\ Len(ckChunks) >= 3
    /\ ckChunks[1].content =
           InputParagraphs[1] \o <<"\n", "\n">> \o InputParagraphs[2]
    /\ ckBuffer = <<>>

-----------------------------------------------------------------------------
(* A call of classifyTask on a task title *)

\* phrases.join(sep)
TitleOf(phrases, sep) == Join(phrases, sep)

\* the titles handleTaskSubmit passes on: trimmed and not empty
TaskTitles ==
    Range(ExampleTitles) \cup
    {TitleOf(phrases, sep) :
        phrases \in (SeqsUpTo(Range(Vocabulary), MaxPhrases) \ {<<>>}),
        sep \in {<<" ">>, <<>>}}

NoClassification == [urgent |-> FALSE, important |-> FALSE, rationale |-> <<>>]

ClassifierInit ==
    /\ clPc = "called"
    /\ clText \in TaskTitles
    /\ clResult = NoClassification

ClassifierIdle ==
    /\ clPc = "idle"
    /\ clText = <<>>
    /\ clResult = NoClassification

\* line 394: const classification = classifyTask(trimmed)
Classify ==
    /\ UNCHANGED notClassifierVars
    /\ clPc = "called"
    /\ clResult' = ClassifyTask(clText)
    /\ clPc' = "returned"
    /\ UNCHANGED clText

ClassifierNext == Classify

-----------------------------------------------------------------------------
(* Properties of classifyTask *)

\* the text holds the word (compared without regard to case)
ContainsAny(text, words) ==
    \E w \in Range(words) : IsSubstring(w, ToLowerCase(text))

HasEliminateCue(text) == ContainsAny(text, EliminateKeywords)

HasUrgentCue(text) ==
    \/ ContainsAny(text, UrgentKeywords)
    \/ SoonMatch(ToLowerCase(text)) # NoMatch
    \/ DateMatch(ToLowerCase(text)) # NoMatch

HasImportantCue(text) ==
    \/ ContainsAny(text, ImportantKeywords)
    \/ HighValueTest(ToLowerCase(text))

HasDelegateCue(text) == ContainsAny(text, DelegateKeywords)

\* C9: a title that contains an eliminate keyword is classified urgent=false
\* and important=false, whatever urgent, time, date, important, high-value or
\* delegate cue it also contains.
C9_EliminateWins ==
    (clPc = "returned" /\ HasEliminateCue(clText)) =>
        (clResult.urgent = FALSE /\ clResult.important = FALSE)

\* C9 witness: a classified title with an eliminate keyword next to an urgent
\* cue and an important cue
C9_Witness ==
    /\ clPc = "returned"
    /\ HasEliminateCue(clText)
    /\ HasUrgentCue(clText)
    /\ HasImportantCue(clText)
    /\ clResult.urgent = FALSE
    /\ clResult.important = FALSE

\* C10: for a title without eliminate keyword, urgent is true exactly when an
\* urgent keyword, the relative-time pattern or the date pattern matches, and
\* important is true exactly when an important keyword or the high-value
\* pattern matches and no delegate keyword does; the two titles the
\* specification names come out as it says.
C10_FlagsWithoutEliminate ==
    /\ (clPc = "returned" /\ ~HasEliminateCue(clText)) =>
           /\ clResult.urgent = HasUrgentCue(clText)
           /\ clResult.important =
                  (HasImportantCue(clText) /\ ~HasDelegateCue(clText))
    /\ (clPc = "returned" /\ clText = ExampleTitles[2]) =>
           clResult.important = FALSE
    /\ (clPc = "returned" /\ clText = ExampleTitles[1]) =>
           (clResult.urgent = TRUE /\ clResult.important = TRUE)

\* C10 witness: "delegate the report to Sam" classified: the high-value
\* pattern matches, a delegate keyword matches, important is false
C10_Witness ==
    /\ clPc = "returned"
    /\ clText = ExampleTitles[2]
    /\ HighValueTest(ToLowerCase(clText))
    /\ HasDelegateCue(clText)
    /\ ~HasEliminateCue(clText)
    /\ clResult.important = FALSE

\* the keywords of the list the text holds, in list order, behind their label
CueFragment(label, keywords, text) ==
    IF ContainsAny(text, keywords)
    THEN <<<<label>> \o Join(SelectSeq(keywords,
                                 LAMBDA w : IsSubstring(w, ToLowerCase(text))),
                             <<",", " ">>)>>
    ELSE <<>>

\* the match of a pattern between quotes behind its label
QuotedFragment(label, match) == <<<<label, "\"">> \o match \o <<"\"">>>>

\* the one urgency fragment: urgent keywords, else the time phrase, else the
\* date word, else none
UrgencyFragment(text) ==
    IF ContainsAny(text, UrgentKeywords)
    THEN CueFragment("Flagged urgent via ", UrgentKeywords, text)
    ELSE IF SoonMatch(ToLowerCase(text)) # NoMatch
    THEN QuotedFragment("Time-bound phrase ", SoonMatch(ToLowerCase(text)))
    ELSE IF DateMatch(ToLowerCase(text)) # NoMatch
    THEN QuotedFragment("Near-term schedule reference ",
                        DateMatch(ToLowerCase(text)))
    ELSE <<>>

\* the fragments the text calls for, in their fixed order
ExpectedFragments(text) ==
    UrgencyFragment(text)
    \o CueFragment("High-impact cues: ", ImportantKeywords, text)
    \o CueFragment("Delegation hint: ", DelegateKeywords, text)
    \o CueFragment("Low-priority phrasing: ", EliminateKeywords, text)

\* the rationale is the fragments joined by the separator, or the default
\* string when there is none
RationaleIs(rationale, fragments) ==
    /\ rationale # <<>>
    /\ fragments # <<>> => rationale = Join(fragments, <<" ", MiddleDot, " ">>)
    /\ (rationale = <<"Default review classification">>) <=> (fragments = <<>>)

\* C11: the rationale holds at most one urgency fragment (urgent keywords,
\* else the time phrase, else the date word), then the important, delegate
\* and eliminate fragments, each exactly when its keywords matched, joined by
\* the separator; it is the default string exactly when there is no fragment;
\* it is never empty and does not depend on the final flags.
C11_RationaleFragments ==
    clPc = "returned" =>
        RationaleIs(clResult.rationale, ExpectedFragments(clText))

\* C11 witness: a returned title with an urgent keyword, a date word, an
\* important keyword and an eliminate keyword: the rationale names the urgent
\* keyword and not the date word, and the flags are both false
C11_Witness ==
    /\ clPc = "returned"
    /\ ContainsAny(clText, UrgentKeywords)
    /\ DateMatch(ToLowerCase(clText)) # NoMatch
    /\ HasEliminateCue(clText)
    /\ IsSubstring(<<"Flagged urgent via ">>, clResult.rationale)
    /\ ~IsSubstring(<<"Near-term schedule reference ">>, clResult.rationale)
    /\ IsSubstring(<<"High-impact cues: ">>, clResult.rationale)
    /\ IsSubstring(<<"Low-priority phrasing: ">>, clResult.rationale)
    /\ ~clResult.urgent
    /\ ~clResult.important

-----------------------------------------------------------------------------
(* convertIrToMarkdown *)

\* /^[-*]\s/.test(line) || /^\d+\.\s/.test(line)
IsListItem(line) ==
    \/ /\ Len(line) >= 2
       /\ line[1] \in {"-", "*"}
       /\ line[2] \in Whitespace
    \/ \E d \in 1..(Len(line) - 2) :
           /\ \A k \in 1..d : line[k] \in Range(DecDigits)
           /\ line[d + 1] = "."
           /\ line[d + 2] \in Whitespace

\* line.replace(/^[-*]\s*/, "")
StripMarker(line) ==
    IF line # <<>> /\ line[1] \in {"-", "*"}
    THEN SubSeq(line, SkipSet(line, 2, Whitespace), Len(line))
    ELSE line

\* lines 181-182: const [label, ...rest] = line.split(":"), for a line that
\* holds a colon
BoldLabel(line) ==
    LET colon == CHOOSE k \in 1..Len(line) :
                     line[k] = ":" /\ \A j \in 1..(k - 1) : line[j] # ":"
    IN  <<"*", "*">> \o Trim(SubSeq(line, 1, colon - 1)) \o <<"*", "*", ":", " ">>
            \o Trim(SubSeq(line, colon + 1, Len(line)))

\* lines 176-184: a section of one line
ConvertSingleLine(line) ==
    IF IsListItem(line) THEN line
    ELSE IF \E k \in 1..Len(line) : line[k] = ":" THEN BoldLabel(line)
    ELSE line

\* lines 188-193: a line of a section of several lines
ConvertListLine(line) ==
    IF IsListItem(line) THEN line
    ELSE <<"-", " ">> \o StripMarker(line)

\* lines 173-194, for the trimmed, non-empty lines of the section
ConvertLines(lines) ==
    IF lines = <<>> THEN <<>>
    ELSE IF Len(lines) = 1 THEN ConvertSingleLine(lines[1])
    ELSE Join([k \in 1..Len(lines) |-> ConvertListLine(lines[k])], <<"\n">>)

\* line 172: section.split(/\n/).map((line) => line.trim()).filter(...); a
\* section holds no run of two newlines, so the pieces between its newlines
\* are the pieces between its runs of newlines
SectionLines(section) ==
    SelectSeq(TrimAll(SplitOnNewlines(section, 1)), NonEmpty)

\* lines 166-195: the callback of sections.map, index counted from 0
ConvertSection(section, index) ==
    IF section = <<>> THEN <<>>
    ELSE IF index = 0 /\ section[1] # "#" THEN <<"#", " ">> \o section
    ELSE ConvertLines(SectionLines(section))

\* line 163
SplitSections(trimmed) ==
    SelectSeq(TrimAll(SplitOnNewlines(trimmed, 2)), NonEmpty)

\* lines 165-196
ConvertSections(sections) ==
    Join([k \in 1..Len(sections) |-> ConvertSection(sections[k], k - 1)],
         <<"\n", "\n">>)

\* lines 159-197
ConvertIrToMarkdown(raw) ==
    IF Trim(raw) = <<>> THEN <<>>
    ELSE ConvertSections(SplitSections(Trim(raw)))

-----------------------------------------------------------------------------
(* A call of convertIrToMarkdown on a ruleset text *)

\* the sections the ruleset texts are made of, each a sequence of lines: a
\* plain title, a heading, a heading with a colon, a label with two colons, a
\* bullet, a numbered item with a colon, and sections of several lines (plain,
\* under a heading, with every kind of marker, with blank-looking lines)
ExampleSections ==
    {<<<<"Title">>>>,
     <<<<"#", " ", "Title">>>>,
     <<<<"#", " ", "Setup", ":", " ", "steps">>>>,
     <<<<"key", " ", ":", "v", ":", "w">>>>,
     <<<<"-", " ", "a">>>>,
     <<<<"1", "2", ".", " ", "a", ":", "b">>>>,
     <<<<"Title">>, <<"body">>>>,
     <<<<"#", " ", "Title">>, <<"body">>>>,
     <<<<"-", " ", "a">>, <<"b">>, <<"1", ".", " ", "c">>, <<"-", "d">>,
       <<"*", "\t", "e">>, <<"1", ".", "f">>, <<"-">>>>,
     <<<<" ", "a", " ">>, <<" ">>, <<"b", ":", "c">>>>}

\* what the user types into the ruleset textarea: nothing, white space, or
\* sections separated by a blank line, with white space around
RulesetTexts ==
    {<<>>, <<" ", "\n", "\n">>} \cup
    {pad \o Join([k \in 1..Len(sections) |->
                      Join(sections[k], <<"\n">>)], <<"\n", "\n">>) \o pad :
        sections \in (SeqsUpTo(ExampleSections, MaxSections) \ {<<>>}),
        pad \in {<<>>, <<"\n">>}}

NormalizerInit ==
    /\ nmPc = "called"
    /\ nmRaw \in RulesetTexts
    /\ nmResult = <<>>

NormalizerIdle ==
    /\ nmPc = "idle"
    /\ nmRaw = <<>>
    /\ nmResult = <<>>

\* line 350: setIrMarkdown(convertIrToMarkdown(irRaw))
Normalize ==
    /\ UNCHANGED notNormalizerVars
    /\ nmPc = "called"
    /\ nmResult' = ConvertIrToMarkdown(nmRaw)
    /\ nmPc' = "returned"
    /\ UNCHANGED nmRaw

NormalizerNext == Normalize

-----------------------------------------------------------------------------
(* Properties of convertIrToMarkdown *)

\* the sections of the input, and the blocks of the output that a blank line
\* separates
InputSections == SplitSections(Trim(nmRaw))

OutputSections == SplitOnNewlines(nmResult, 2)

\* the output block is the list of the lines: one item per line, a line with
\* a marker as it is, any other line behind "- "
IsListOf(block, lines) ==
    /\ Len(SplitOnNewlines(block, 1)) = Len(lines)
    /\ \A j \in 1..Len(lines) :
           IF IsListItem(lines[j])
           THEN SplitOnNewlines(block, 1)[j] = lines[j]
           ELSE /\ Len(SplitOnNewlines(block, 1)[j]) >= 2
                /\ SubSeq(SplitOnNewlines(block, 1)[j], 1, 2) = <<"-", " ">>

\* C12 (as claimed): every section of the input with more than one non-empty
\* line, the first section included, is emitted with every line as a list
\* item: a line that starts with a bullet or number marker as it is, every
\* other line with a leading "- ".
C12_EveryLineAListItem ==
    nmPc = "returned" =>
        \A k \in 1..Len(InputSections) :
            Len(SectionLines(InputSections[k])) > 1 =>
                /\ k <= Len(OutputSections)
                /\ IsListOf(OutputSections[k], SectionLines(InputSections[k]))

\* C15 (as claimed): for every input that is not blank the output starts with
\* the heading marker "#", whether the first section lacks the marker or
\* already starts with it.
C15_StartsWithHeading ==
    (nmPc = "returned" /\ Trim(nmRaw) # <<>>) =>
        (nmResult # <<>> /\ nmResult[1] = "#")

-----------------------------------------------------------------------------
(* JSON.stringify and JSON.parse *)

\* JavaScript values as the codec sees them: an object is the sequence of its
\* members in insertion order
JNull == [t |-> "null"]

JBool(b) == [t |-> "bool", b |-> b]

JNum(n) == [t |-> "num", n |-> n]

JStr(s) == [t |-> "str", s |-> s]

JArr(a) == [t |-> "arr", a |-> a]

JObj(m) == [t |-> "obj", m |-> m]

Member(k, v) == [k |-> <<k>>, v |-> v]

Undefined == [t |-> "undefined"]

Spaces(n) == [k \in 1..n |-> " "]

\* JSON.stringify's escapes inside a string literal
EscapeChar(c) ==
    CASE c = "\"" -> <<"\\", "\"">>
      [] c = "\\" -> <<"\\", "\\">>
      [] c = "\n" -> <<"\\", "n">>
      [] c = "\r" -> <<"\\", "r">>
      [] c = "\t" -> <<"\\", "t">>
      [] OTHER    -> <<c>>

RECURSIVE EscapeFrom(_, _)
EscapeFrom(s, i) ==
    IF i > Len(s) THEN <<>> ELSE EscapeChar(s[i]) \o EscapeFrom(s, i + 1)

QuoteString(s) == <<"\"">> \o EscapeFrom(s, 1) \o <<"\"">>

\* JSON.stringify(v, null, gap) at nesting depth indent; gap = 0 is the
\* compact form. A value tagged "text" stands for file text that no
\* stringify wrote and is copied as it is.
RECURSIVE Stringify(_, _, _)
Stringify(v, gap, indent) ==
    LET inner == indent + gap
        open(c)  == IF gap = 0 THEN <<c>> ELSE <<c, "\n">> \o Spaces(inner)
        close(c) == IF gap = 0 THEN <<c>> ELSE <<"\n">> \o Spaces(indent) \o <<c>>
        comma    == IF gap = 0 THEN <<",">> ELSE <<",", "\n">> \o Spaces(inner)
        colon    == IF gap = 0 THEN <<":">> ELSE <<":", " ">>
    IN  CASE v.t = "null" -> <<"null">>
          [] v.t = "bool" -> <<IF v.b THEN "true" ELSE "false">>
          [] v.t = "num"  -> NumToStr(v.n)
          [] v.t = "str"  -> QuoteString(v.s)
          [] v.t = "text" -> v.s
          [] v.t = "arr"  ->
                 IF v.a = <<>> THEN <<"[", "]">>
                 ELSE open("[")
                      \o Join([k \in 1..Len(v.a) |->
                                  Stringify(v.a[k], gap, inner)], comma)
                      \o close("]")
          [] v.t = "obj"  ->
                 IF v.m = <<>> THEN <<"{", "}">>
                 ELSE open("{")
                      \o Join([k \in 1..Len(v.m) |->
                                  QuoteString(v.m[k].k) \o colon
                                  \o Stringify(v.m[k].v, gap, inner)], comma)
                      \o close("}")

JsonFail == [ok |-> FALSE]

JsonOk(v, i) == [ok |-> TRUE, v |-> v, i |-> i]

SkipWs(s, i) == SkipSet(s, i, Whitespace)

\* the characters of a string literal from position i (after the opening
\* quote) up to the closing quote
RECURSIVE JsonStringFrom(_, _, _)
JsonStringFrom(s, i, acc) ==
    IF i > Len(s) THEN JsonFail
    ELSE IF s[i] = "\"" THEN JsonOk(JStr(acc), i + 1)
    ELSE IF s[i] = "\\"
         THEN IF i + 1 > Len(s) THEN JsonFail
              ELSE IF s[i + 1] \in {"\"", "\\"}
                   THEN JsonStringFrom(s, i + 2, Append(acc, s[i + 1]))
              ELSE IF s[i + 1] = "n"
                   THEN JsonStringFrom(s, i + 2, Append(acc, "\n"))
              ELSE IF s[i + 1] = "r"
                   THEN JsonStringFrom(s, i + 2, Append(acc, "\r"))
              ELSE IF s[i + 1] = "t"
                   THEN JsonStringFrom(s, i + 2, Append(acc, "\t"))
              ELSE JsonFail
    ELSE IF s[i] \in {"\n", "\r", "\t"} THEN JsonFail
    ELSE JsonStringFrom(s, i + 1, Append(acc, s[i]))

DigitValue(c) == (CHOOSE k \in 1..10 : DecDigits[k] = c) - 1

RECURSIVE StrToNat(_, _, _)
StrToNat(s, i, acc) ==
    IF i > Len(s) THEN acc
    ELSE StrToNat(s, i + 1, 10 * acc + DigitValue(s[i]))

\* an integer literal at position i: -?(0|[1-9][0-9]*)
JsonNumberAt(s, i) ==
    LET neg   == s[i] = "-"
        first == IF neg THEN i + 1 ELSE i
        last  == SkipSet(s, first, Range(DecDigits))
    IN  IF last = first THEN JsonFail
        ELSE IF s[first] = "0" /\ last > first + 1 THEN JsonFail
        ELSE LET n == StrToNat(SubSeq(s, first, last - 1), 1, 0)
             IN  JsonOk(JNum(IF neg THEN 0 - n ELSE n), last)

RECURSIVE JsonValueAt(_, _)
RECURSIVE JsonElements(_, _, _)
RECURSIVE JsonMembers(_, _, _)

\* the JSON value that starts at or after position i0
JsonValueAt(s, i0) ==
    LET i == SkipWs(s, i0)
    IN  IF i > Len(s) THEN JsonFail
        ELSE IF s[i] = "\"" THEN JsonStringFrom(s, i + 1, <<>>)
        ELSE IF s[i] = "null" THEN JsonOk(JNull, i + 1)
        ELSE IF s[i] = "true" THEN JsonOk(JBool(TRUE), i + 1)
        ELSE IF s[i] = "false" THEN JsonOk(JBool(FALSE), i + 1)
        ELSE IF s[i] \in Range(DecDigits) \cup {"-"} THEN JsonNumberAt(s, i)
        ELSE IF s[i] = "["
             THEN LET j == SkipWs(s, i + 1)
                  IN  IF j <= Len(s) /\ s[j] = "]"
                      THEN JsonOk(JArr(<<>>), j + 1)
                      ELSE JsonElements(s, i + 1, <<>>)
        ELSE IF s[i] = "{"
             THEN LET j == SkipWs(s, i + 1)
                  IN  IF j <= Len(s) /\ s[j] = "}"
                      THEN JsonOk(JObj(<<>>), j + 1)
                      ELSE JsonMembers(s, i + 1, <<>>)
        ELSE JsonFail

\* the elements of an array from position i, acc holding those read so far
JsonElements(s, i, acc) ==
    LET r == JsonValueAt(s, i)
    IN  IF ~r.ok THEN JsonFail
        ELSE LET j == SkipWs(s, r.i)
             IN  IF j > Len(s) THEN JsonFail
                 ELSE IF s[j] = ","
                      THEN JsonElements(s, j + 1, Append(acc, r.v))
                 ELSE IF s[j] = "]"
                      THEN JsonOk(JArr(Append(acc, r.v)), j + 1)
                 ELSE JsonFail

\* the members of an object from position i
JsonMembers(s, i, acc) ==
    LET j == SkipWs(s, i)
    IN  IF j > Len(s) \/ s[j] # "\"" THEN JsonFail
        ELSE LET key == JsonStringFrom(s, j + 1, <<>>)
             IN  IF ~key.ok THEN JsonFail
                 ELSE LET c == SkipWs(s, key.i)
                      IN  IF c > Len(s) \/ s[c] # ":" THEN JsonFail
                          ELSE LET r == JsonValueAt(s, c + 1)
                               IN  IF ~r.ok THEN JsonFail
                                   ELSE LET e  == SkipWs(s, r.i)
                                            m  == [k |-> key.v.s, v |-> r.v]
                                        IN  IF e > Len(s) THEN JsonFail
                                            ELSE IF s[e] = ","
                                                 THEN JsonMembers(s, e + 1, Append(acc, m))
                                            ELSE IF s[e] = "}"
                                                 THEN JsonOk(JObj(Append(acc, m)), e + 1)
                                            ELSE JsonFail

\* JSON.parse(s): one value and nothing but white space after it; ok = FALSE
\* stands for the SyntaxError it throws
JsonParse(s) ==
    LET r == JsonValueAt(s, 1)
    IN  IF r.ok /\ SkipWs(s, r.i) > Len(s)
        THEN [ok |-> TRUE, v |-> r.v]
        ELSE JsonFail

-----------------------------------------------------------------------------
(* buildKcsExport and parseKcsUpload *)

\* a KcsChunk as the object JSON.stringify walks, members in declaration order
ChunkToJson(c) ==
    JObj(<<Member("id", JStr(c.id)),
           Member("content", JStr(c.content)),
           Member("metadata",
               JObj(<<Member("chunkIndex", JNum(c.metadata.chunkIndex)),
                      Member("createdAt", JStr(c.metadata.createdAt)),
                      Member("source", JStr(c.metadata.source)),
                      Member("tokenEstimate", JNum(c.metadata.tokenEstimate)),
                      Member("hash", JStr(c.metadata.hash))>>))>>)

\* lines 251-256
BuildKcsExport(chunks, format) ==
    IF format = "jsonl"
    THEN Join([k \in 1..Len(chunks) |-> Stringify(ChunkToJson(chunks[k]), 0, 0)],
              <<"\n">>)
    ELSE Stringify(JArr([k \in 1..Len(chunks) |-> ChunkToJson(chunks[k])]), 2, 0)

\* entry.key: the last member of that name, undefined when entry is no
\* object or has no such member
Field(entry, key) ==
    IF entry.t = "obj" /\ \E k \in 1..Len(entry.m) : entry.m[k].k = <<key>>
    THEN LET last == CHOOSE k \in 1..Len(entry.m) :
                         /\ entry.m[k].k = <<key>>
                         /\ \A j \in (k + 1)..Len(entry.m) : entry.m[j].k # <<key>>
         IN  entry.m[last].v
    ELSE Undefined

Nullish(v) == v.t \in {"null", "undefined"}

\* mutant of OptionalField: the metadata of the record is not looked at
OptionalFieldIgnored(entry, key) == Undefined

\* entry?.key
OptionalField(entry, key) ==
    IF Nullish(entry) THEN Undefined ELSE Field(entry, key)

\* a string or a number as the model keeps it in a chunk
Plain(v) == IF v.t = "str" THEN v.s ELSE v.n

\* mutant of OrDefault: v || d, which also replaces "" and 0
OrDefaultFalsy(v, d) ==
    IF Nullish(v) \/ v = JStr(<<>>) \/ v = JNum(0) THEN d ELSE Plain(v)

\* v ?? d
OrDefault(v, d) == IF Nullish(v) THEN d ELSE Plain(v)

\* lines 276-290: the callback of normalized.map for an entry that is not null
AssembleChunk(entry, index, now) ==
    LET metadata == Field(entry, "metadata")
        content  == OrDefault(Field(entry, "content"), <<>>)
    IN  [id |-> OrDefault(Field(entry, "id"), CreateId(now, index)),
         content |-> content,
         metadata |->
             [chunkIndex    |-> OrDefault(OptionalField(metadata, "chunkIndex"),
                                          index),
              createdAt     |-> OrDefault(OptionalField(metadata, "createdAt"),
                                          IsoTime(now)),
              source        |-> OrDefault(OptionalField(metadata, "source"),
                                          <<"uploaded">>),
              tokenEstimate |-> OrDefault(OptionalField(metadata, "tokenEstimate"),
                                          EstimateTokens(content)),
              hash          |-> OrDefault(OptionalField(metadata, "hash"),
                                          SimpleHash(content))]]

\* lines 267 and 271: trimmed.split(/\n+/).map((line) => JSON.parse(line))
ParseLines(trimmed) ==
    LET lines  == SplitOnNewlines(trimmed, 1)
        parsed == [k \in 1..Len(lines) |-> JsonParse(lines[k])]
    IN  IF \E k \in 1..Len(lines) : ~parsed[k].ok
        THEN JsonFail
        ELSE [ok |-> TRUE, v |-> JArr([k \in 1..Len(lines) |-> parsed[k].v])]

\* lines 291-293: the value parseKcsUpload returns
Parsed(chunks) ==
    [ok |-> TRUE,
     raw |-> Join([k \in 1..Len(chunks) |-> chunks[k].content], <<"\n", "\n">>),
     chunks |-> chunks]

\* lines 276-290: normalized.map(...); reading a property of a null entry
\* throws the TypeError
MapEntries(normalized, now) ==
    IF \E k \in 1..Len(normalized) : normalized[k].t = "null"
    THEN [ok |-> FALSE, error |-> "TypeError"]
    ELSE Parsed([k \in 1..Len(normalized) |->
                    AssembleChunk(normalized[k], k - 1, now)])

\* line 274: const normalized = Array.isArray(parsed) ? parsed : []
Normalized(v) == IF v.t = "arr" THEN v.a ELSE <<>>

\* lines 274-293, after JSON.parse has returned or thrown
FromParsed(parsed, now) ==
    IF ~parsed.ok THEN [ok |-> FALSE, error |-> "SyntaxError"]
    ELSE MapEntries(Normalized(parsed.v), now)

\* lines 262-293, for the trimmed text
ParseTrimmed(trimmed, now) ==
    IF trimmed = <<>> THEN [ok |-> TRUE, raw |-> <<>>, chunks |-> <<>>]
    ELSE FromParsed(IF trimmed[1] = "{" THEN ParseLines(trimmed)
                    ELSE IF trimmed[1] = "[" THEN JsonParse(trimmed)
                    ELSE ParseLines(trimmed),
                    now)

\* lines 258-294; ok = FALSE stands for the exception the call throws: the
\* SyntaxError of JSON.parse, or the TypeError of reading a property of null.
\* The records of the model carry a string, null or nothing as content and
\* id, and metadata fields of their declared types.
ParseKcsUpload(text, now) == ParseTrimmed(Trim(text), now)

-----------------------------------------------------------------------------
(* The codec on its own: export then import, and import of an uploaded file *)

\* the chunks the exported sequences are made of: two as the chunker builds
\* them (one with a blank line inside), one as an import leaves it (empty id
\* and content, its own index and hash), one whose content holds the
\* characters JSON escapes or gives a meaning to
CodecChunks ==
    {WrapChunk(<<"a">>, 0, 0),
     WrapChunk(<<"a", "\n", "\n", "b">>, 1, 0),
     [id |-> <<>>, content |-> <<>>,
      metadata |-> [chunkIndex |-> 7, createdAt |-> IsoTime(3),
                    source |-> <<"uploaded">>, tokenEstimate |-> 1,
                    hash |-> <<"z", "z">>]],
     [id |-> <<"[", "{">>, content |-> <<"{", "\"", "\\", " ", "[", "\r">>,
      metadata |-> [chunkIndex |-> 0, createdAt |-> IsoTime(12),
                    source |-> <<"manual-entry">>, tokenEstimate |-> 0,
                    hash |-> <<"0">>]]}

CodecChunkSeqs == SeqsUpTo(CodecChunks, MaxExportChunks)

\* text of a file that is not JSON
NotJson == [t |-> "text", s |-> <<"not", " ", "valid", " ", "json">>]

\* what a line or an array element of an uploaded file holds: a full chunk
\* record with its own index and hash, a record with content only, a record
\* with part of the metadata, an empty record, a record with null as content
\* and metadata, a number, a string, null, and text that is not JSON
UploadEntries ==
    {ChunkToJson([id |-> <<"k">>, content |-> <<"a", "b">>,
                  metadata |-> [chunkIndex |-> 5, createdAt |-> IsoTime(9),
                                source |-> <<"notes">>, tokenEstimate |-> 4,
                                hash |-> <<"z", "z">>]]),
     JObj(<<Member("content", JStr(<<"a">>))>>),
     JObj(<<Member("id", JNull), Member("content", JStr(<<"b", " ", "a">>)),
            Member("metadata", JObj(<<Member("source", JStr(<<"notes">>))>>))>>),
     JObj(<<>>),
     JObj(<<Member("content", JNull), Member("metadata", JNull)>>),
     JNum(5),
     JStr(<<"x">>),
     JNull,
     NotJson}

\* an uploaded file: its layout and what each line or element holds
UploadFiles(entries, maxEntries) ==
    [layout : {"json", "jsonl"}, entries : SeqsUpTo(entries, maxEntries)]

\* the text of an uploaded file
FileText(file) ==
    IF file.layout = "jsonl"
    THEN Join([k \in 1..Len(file.entries) |-> Stringify(file.entries[k], 0, 0)],
              <<"\n">>)
    ELSE Stringify(JArr(file.entries), 2, 0)

NoFile == [layout |-> "none", entries |-> <<>>]

NoParse == [ok |-> FALSE, error |-> "none"]

CodecInit ==
    /\ cdResult = NoParse
    /\ \/ /\ cdPc = "chunks"
          /\ cdChunks \in CodecChunkSeqs
          /\ cdFormat \in {"json", "jsonl"}
          /\ cdFile = NoFile
          /\ cdPayload = <<>>
       \/ /\ cdPc = "payload"
          /\ cdChunks = <<>>
          /\ cdFormat = "json"
          /\ cdFile \in UploadFiles(UploadEntries, MaxFileEntries)
          /\ cdPayload = FileText(cdFile)

CodecIdle ==
    /\ cdPc = "idle"
    /\ cdChunks = <<>>
    /\ cdFormat = "json"
    /\ cdFile = NoFile
    /\ cdPayload = <<>>
    /\ cdResult = NoParse

\* line 480: const payload = buildKcsExport(kcsChunks, exportFormat)
CodecExport ==
    /\ UNCHANGED notCodecVars
    /\ cdPc = "chunks"
    /\ cdPayload' = BuildKcsExport(cdChunks, cdFormat)
    /\ cdPc' = "payload"
    /\ UNCHANGED <<cdChunks, cdFormat, cdFile, cdResult>>

\* line 460: parseKcsUpload(content), at time 1
CodecParse ==
    /\ UNCHANGED notCodecVars
    /\ cdPc = "payload"
    /\ cdResult' = ParseKcsUpload(cdPayload, 1)
    /\ cdPc' = "parsed"
    /\ UNCHANGED <<cdChunks, cdFormat, cdFile, cdPayload>>

CodecNext ==
    \/ CodecExport
    \/ CodecParse

-----------------------------------------------------------------------------
(* Properties of the codec *)

\* C4: serialize then parse is lossless in both formats: the parse of an
\* exported chunk sequence succeeds and returns the same chunks, in the same
\* order, every field equal; the empty sequence included.
C4_RoundTrip ==
    (cdPc = "parsed" /\ cdFile = NoFile) =>
        (cdResult.ok /\ cdResult.chunks = cdChunks)

\* C4 witness: a parsed jsonl export of two chunks, one with a blank line in
\* its content and one with an empty id, returned as they were
C4_Witness ==
    /\ cdPc = "parsed"
    /\ cdFile = NoFile
    /\ cdFormat = "jsonl"
    /\ Len(cdChunks) = 2
    /\ IsSubstring(<<"\n", "\n">>, cdChunks[1].content)
    /\ cdChunks[2].id = <<>>
    /\ cdResult.ok
    /\ cdResult.chunks = cdChunks

\* the record has a value of its own under key: it is an object with a
\* member of that name that is not null
HasOwn(entry, key) ==
    /\ entry.t = "obj"
    /\ \E k \in 1..Len(entry.m) : entry.m[k].k = <<key>> /\ entry.m[k].v.t # "null"

\* the record's own value under key, or the default d
OwnOr(entry, key, d) ==
    IF HasOwn(entry, key) THEN Plain(Field(entry, key)) ELSE d

\* the metadata of the record, an empty object when it has none
MetadataOf(entry) ==
    IF HasOwn(entry, "metadata") THEN Field(entry, "metadata") ELSE JObj(<<>>)

\* chunk is what entry number k (counted from 0) of a parse at time now must
\* give; ids are the ids of the other chunks of the parse
RebuiltFrom(chunk, entry, k, now, ids) ==
    /\ chunk.content = OwnOr(entry, "content", <<>>)
    /\ IF HasOwn(entry, "id") THEN chunk.id = Plain(Field(entry, "id"))
       ELSE chunk.id \notin ids
    /\ chunk.metadata.chunkIndex = OwnOr(MetadataOf(entry), "chunkIndex", k)
    /\ chunk.metadata.createdAt =
           OwnOr(MetadataOf(entry), "createdAt", IsoTime(now))
    /\ chunk.metadata.source =
           OwnOr(MetadataOf(entry), "source", <<"uploaded">>)
    /\ chunk.metadata.tokenEstimate =
           OwnOr(MetadataOf(entry), "tokenEstimate",
                 EstimateTokens(chunk.content))
    /\ chunk.metadata.hash =
           OwnOr(MetadataOf(entry), "hash", SimpleHash(chunk.content))

\* the ids of the chunks but the one at position k
OtherIds(chunks, k) == {chunks[j].id : j \in (1..Len(chunks)) \ {k}}

\* C14: a successful parse returns one chunk per entry of the file, in order;
\* each field is the record's own value when it has one (null counts as
\* none) and otherwise the default: content the empty string, chunkIndex the
\* position, source "uploaded", createdAt the one time of the parse, id a
\* fresh id, tokenEstimate and hash recomputed from the content; and the
\* returned text is the contents joined with a blank line.
C14_DefaultsPerField ==
    (cdPc = "parsed" /\ cdFile # NoFile /\ cdResult.ok) =>
        /\ Len(cdResult.chunks) = Len(cdFile.entries)
        /\ \A k \in 1..Len(cdFile.entries) :
               RebuiltFrom(cdResult.chunks[k], cdFile.entries[k], k - 1, 1,
                           OtherIds(cdResult.chunks, k))
        /\ cdResult.raw =
               Join([k \in 1..Len(cdResult.chunks) |->
                        cdResult.chunks[k].content], <<"\n", "\n">>)

\* C14 witness: a parsed file of two records, the first with every field of
\* its own, the second with none but its content
C14_Witness ==
    /\ cdPc = "parsed"
    /\ cdFile # NoFile
    /\ cdResult.ok
    /\ Len(cdFile.entries) = 2
    /\ HasOwn(MetadataOf(cdFile.entries[1]), "chunkIndex")
    /\ HasOwn(MetadataOf(cdFile.entries[1]), "hash")
    /\ HasOwn(cdFile.entries[2], "content")
    /\ ~HasOwn(cdFile.entries[2], "metadata")
    /\ cdResult.chunks[1].metadata.chunkIndex = 5
    /\ cdResult.chunks[2].metadata.chunkIndex = 1
    /\ cdResult.chunks[2].metadata.source = <<"uploaded">>
    /\ cdResult.chunks[2].metadata.hash = SimpleHash(<<"a">>)

\* C8 (as claimed): parse fails whenever a line or an array element of the
\* file is not a JSON object: it never succeeds on a file that holds a
\* number, a string, null or text that is not JSON.
C8_NonObjectRejected ==
    (cdPc = "parsed" /\ cdFile # NoFile
        /\ \E k \in 1..Len(cdFile.entries) : cdFile.entries[k].t # "obj")
    => ~cdResult.ok

-----------------------------------------------------------------------------
(* Home: the knowledge text, the chunk set and their handlers *)

\* line 199: chunkSize = 650
DefaultChunkSize == 650

\* line 199: overlap = 80
DefaultOverlap == 80

\* what the user types into the knowledge textarea
KnowledgeTexts == {<<>>, <<"a">>, <<"a", " ", "b", "\n", "\n", "b">>}

\* what a line or an array element of a file the user uploads holds: a full
\* chunk record with its own index and hash, a record with content only, and
\* text that is not JSON
HomeUploadEntries ==
    {ChunkToJson([id |-> <<"k">>, content |-> <<"a">>,
                  metadata |-> [chunkIndex |-> 5, createdAt |-> IsoTime(9),
                                source |-> <<"notes">>, tokenEstimate |-> 4,
                                hash |-> <<"z", "z">>]]),
     JObj(<<Member("content", JStr(<<"a">>))>>),
     NotJson}

NoStatus == [kind |-> "", n |-> 0]

HomeInit ==
    /\ kcsRaw = <<>>
    /\ kcsChunks = <<>>
    /\ kcsStatus = NoStatus
    /\ upPc = "idle"
    /\ upFile = NoFile
    /\ clock = 0

HomeIdle ==
    /\ kcsRaw = <<>>
    /\ kcsChunks = <<>>
    /\ kcsStatus = NoStatus
    /\ upPc = "off"
    /\ upFile = NoFile
    /\ clock = 0

\* line 716: onChange={(event) => setKcsRaw(event.target.value)}
SetKcsRaw ==
    /\ UNCHANGED notHomeVars
    /\ upPc # "off"
    /\ \E text \in KnowledgeTexts : kcsRaw' = text
    /\ UNCHANGED <<kcsChunks, kcsStatus, upPc, upFile, clock>>

\* lines 472-476
HandleKcsChunking ==
    /\ UNCHANGED notHomeVars
    /\ upPc # "off"
    /\ clock < MaxClock
    /\ kcsChunks' = ChunkKnowledgeBase(kcsRaw, DefaultChunkSize, DefaultOverlap,
                                       clock)
    /\ kcsStatus' = [kind |-> "Generated", n |-> Len(kcsChunks')]
    /\ clock' = clock + 1
    /\ UNCHANGED <<kcsRaw, upPc, upFile>>

\* lines 454-459: a file is chosen and handleKcsUpload waits for its text
HandleKcsUploadRead ==
    /\ UNCHANGED notHomeVars
    /\ upPc = "idle"
    /\ clock < MaxClock
    /\ \E file \in UploadFiles(HomeUploadEntries, MaxUploadEntries) :
           upFile' = file
    /\ upPc' = "reading"
    /\ UNCHANGED <<kcsRaw, kcsChunks, kcsStatus, clock>>

\* mutant of SetUploaded: the chunk set is cleared when the parse fails
SetUploadedClearing(result) ==
    IF result.ok
    THEN /\ kcsRaw' = result.raw
         /\ kcsChunks' = result.chunks
         /\ kcsStatus' = [kind |-> "Imported", n |-> Len(result.chunks)]
    ELSE /\ kcsStatus' = [kind |-> "Upload failed", n |-> 0]
         /\ kcsChunks' = <<>>
         /\ UNCHANGED kcsRaw

\* lines 461-467: the state after parseKcsUpload has returned or thrown
SetUploaded(result) ==
    IF result.ok
    THEN /\ kcsRaw' = result.raw
         /\ kcsChunks' = result.chunks
         /\ kcsStatus' = [kind |-> "Imported", n |-> Len(result.chunks)]
    ELSE /\ kcsStatus' = [kind |-> "Upload failed", n |-> 0]
         /\ UNCHANGED <<kcsRaw, kcsChunks>>

\* lines 460-469: the text has arrived; parse it, then set the state or
\* report the failure
HandleKcsUploadDone ==
    /\ UNCHANGED notHomeVars
    /\ upPc = "reading"
    /\ SetUploaded(ParseKcsUpload(FileText(upFile), clock))
    /\ upPc' = "idle"
    /\ upFile' = NoFile
    /\ clock' = clock + 1

HomeNext ==
    \/ SetKcsRaw
    \/ HandleKcsChunking
    \/ HandleKcsUploadRead
    \/ HandleKcsUploadDone

-----------------------------------------------------------------------------
(* Properties of the chunk set Home holds *)

\* C2 (as claimed): after any sequence of chunking and import operations the
\* chunk set has the chunkIndex values 0, 1, ..., n-1 in array order.
C2_ContiguousIndex ==
    \A k \in 1..Len(kcsChunks) : kcsChunks[k].metadata.chunkIndex = k - 1

\* the uploaded file holds text that is not JSON at some line or element
HasMalformedEntry(file) ==
    \E k \in 1..Len(file.entries) : file.entries[k] = NotJson

\* what the step that ends the upload of file must do, given what the parse
\* of its text returned
AllOrNothing(file, result) ==
    /\ HasMalformedEntry(file) => ~result.ok
    /\ ~result.ok =>
           /\ kcsRaw' = kcsRaw
           /\ kcsChunks' = kcsChunks
           /\ kcsStatus'.kind = "Upload failed"
    /\ result.ok =>
           /\ kcsRaw' = result.raw
           /\ kcsChunks' = result.chunks
           /\ kcsStatus' = [kind |-> "Imported", n |-> Len(result.chunks)]

\* C3: import is all-or-nothing. The step that ends an upload leaves the
\* knowledge text and the chunk set as they were, and sets only the status,
\* when the parse fails, as it does whenever a line or an element of the file
\* is malformed; when the parse succeeds it replaces the text and the chunk
\* set together by what the parse returned.
C3_AllOrNothing ==
    [][(upPc = "reading" /\ upPc' = "idle") =>
          AllOrNothing(upFile, ParseKcsUpload(FileText(upFile), clock))]_vars

\* C3 witness: a failed upload has been reported while Home holds a chunk set
\* and a knowledge text from before
C3_Witness ==
    /\ kcsStatus.kind = "Upload failed"
    /\ upPc = "idle"
    /\ kcsChunks # <<>>
    /\ kcsRaw # <<>>

\* C7 (as claimed): in every chunk of the chunk set the hash is the rolling
\* hash of that chunk's content, so chunks of equal content carry equal hashes.
C7_HashOfContent ==
    \A k \in 1..Len(kcsChunks) :
        kcsChunks[k].metadata.hash = SimpleHash(kcsChunks[k].content)

-----------------------------------------------------------------------------
(* Home: the hydration effect, the save effects and localStorage *)

\* localStorage.getItem gives null: no item under the key
NoItem == <<"<null>">>

\* lines 29-33: the storage keys, by the state they hold
StorageKeys == {"tasks", "irRaw", "irMarkdown", "kcsRaw", "kcsChunks"}

\* lines 307-313: the initial state of the component
InitialState ==
    [hydrated |-> FALSE, tasks |-> JArr(<<>>), irRaw |-> <<>>,
     irMarkdown |-> <<>>, kcsRaw |-> <<>>, kcsChunks |-> JArr(<<>>)]

\* a task list as the component saved it, and a chunk list likewise
SavedTasks ==
    Stringify(JArr(<<JObj(<<Member("id", JStr(<<"t">>)),
                            Member("title", JStr(<<"urgent">>)),
                            Member("urgent", JBool(TRUE)),
                            Member("important", JBool(FALSE)),
                            Member("completed", JBool(FALSE)),
                            Member("rationale", JStr(<<"r">>)),
                            Member("createdAt", JStr(IsoTime(1)))>>)>>), 0, 0)

SavedChunks == Stringify(JArr(<<ChunkToJson(WrapChunk(<<"a">>, 0, 0))>>), 0, 0)

\* a stored value that JSON.parse rejects
Corrupt == <<"[", "{">>

\* what localStorage can hold when the component mounts
StoredStates ==
    [tasks      : {NoItem, SavedTasks, Corrupt},
     irRaw      : {NoItem, <<"Title">>, <<"a", ":", "b">>},
     irMarkdown : {NoItem, <<"#", " ", "Title">>},
     kcsRaw     : {NoItem, <<"a">>},
     kcsChunks  : {NoItem, Stringify(JArr(<<>>), 0, 0), SavedChunks, Corrupt}]

\* if (stored): null and the empty string are falsy
Truthy(item) == item # NoItem /\ item # <<>>

\* lines 339-341: the last statement of the try block; when JSON.parse throws
\* nothing is left to skip
HydrateChunks(state, item) ==
    IF Truthy(item) /\ JsonParse(item).ok
    THEN [state EXCEPT !.kcsChunks = JsonParse(item).v]
    ELSE state

\* lines 330-341
HydrateTexts(state, stored) ==
    HydrateChunks(
        [state EXCEPT
            !.irRaw      = IF Truthy(stored.irRaw) THEN stored.irRaw ELSE @,
            !.irMarkdown = IF Truthy(stored.irMarkdown) THEN stored.irMarkdown
                           ELSE @,
            !.kcsRaw     = IF Truthy(stored.kcsRaw) THEN stored.kcsRaw ELSE @],
        stored.kcsChunks)

\* lines 320-344: the try block; when JSON.parse of the tasks throws, the
\* catch skips every set call after it
HydrateState(state, stored) ==
    IF ~Truthy(stored.tasks) THEN HydrateTexts(state, stored)
    ELSE IF JsonParse(stored.tasks).ok
    THEN HydrateTexts([state EXCEPT !.tasks = JsonParse(stored.tasks).v], stored)
    ELSE state

\* the effects in the order the component declares them, and the state each
\* depends on (the hydration effect depends on nothing)
EffectOrder == <<"hydrate", "convert", "saveTasks", "saveIr", "saveKcs">>

EffectDeps(effect) ==
    CASE effect = "hydrate"   -> {}
      [] effect = "convert"   -> {"irRaw"}
      [] effect = "saveTasks" -> {"tasks", "hydrated"}
      [] effect = "saveIr"    -> {"irRaw", "irMarkdown", "hydrated"}
      [] effect = "saveKcs"   -> {"kcsRaw", "kcsChunks", "hydrated"}

\* the effects React runs after a render that changed the state from old to
\* new
EffectsAfter(old, new) ==
    SelectSeq(EffectOrder,
              LAMBDA e : \E dep \in EffectDeps(e) : old[dep] # new[dep])

StartupInit ==
    /\ storage \in StoredStates
    /\ storedBefore = storage
    /\ rendered = InitialState
    /\ queued = InitialState
    /\ effects = EffectOrder
    /\ loadRan = FALSE

\* the component has started and come to rest, with nothing stored
StartupIdle ==
    /\ storage = [key \in StorageKeys |-> NoItem]
    /\ storedBefore = storage
    /\ rendered = [InitialState EXCEPT !.hydrated = TRUE]
    /\ queued = rendered
    /\ effects = <<>>
    /\ loadRan = TRUE

\* lines 317-347
RunHydrate ==
    /\ UNCHANGED notStartupVars
    /\ effects # <<>> /\ Head(effects) = "hydrate"
    /\ queued' = [HydrateState(queued, storage) EXCEPT !.hydrated = TRUE]
    /\ loadRan' = TRUE
    /\ effects' = Tail(effects)
    /\ UNCHANGED <<storage, storedBefore, rendered>>

\* lines 349-351
RunConvert ==
    /\ UNCHANGED notStartupVars
    /\ effects # <<>> /\ Head(effects) = "convert"
    /\ queued' = [queued EXCEPT
                     !.irMarkdown = ConvertIrToMarkdown(rendered.irRaw)]
    /\ effects' = Tail(effects)
    /\ UNCHANGED <<storage, storedBefore, rendered, loadRan>>

\* lines 353-356
RunSaveTasks ==
    /\ UNCHANGED notStartupVars
    /\ effects # <<>> /\ Head(effects) = "saveTasks"
    /\ storage' = IF ~rendered.hydrated THEN storage
                  ELSE [storage EXCEPT !.tasks = Stringify(rendered.tasks, 0, 0)]
    /\ effects' = Tail(effects)
    /\ UNCHANGED <<storedBefore, rendered, queued, loadRan>>

\* lines 358-362
RunSaveIr ==
    /\ UNCHANGED notStartupVars
    /\ effects # <<>> /\ Head(effects) = "saveIr"
    /\ storage' = IF ~rendered.hydrated THEN storage
                  ELSE [storage EXCEPT !.irRaw = rendered.irRaw,
                                       !.irMarkdown = rendered.irMarkdown]
    /\ effects' = Tail(effects)
    /\ UNCHANGED <<storedBefore, rendered, queued, loadRan>>

\* lines 364-368
RunSaveKcs ==
    /\ UNCHANGED notStartupVars
    /\ effects # <<>> /\ Head(effects) = "saveKcs"
    /\ storage' = IF ~rendered.hydrated THEN storage
                  ELSE [storage EXCEPT
                           !.kcsRaw = rendered.kcsRaw,
                           !.kcsChunks = Stringify(rendered.kcsChunks, 0, 0)]
    /\ effects' = Tail(effects)
    /\ UNCHANGED <<storedBefore, rendered, queued, loadRan>>

\* the render React schedules for the queued state once the effects of the
\* commit have run; the effects whose dependencies changed run after it
Render ==
    /\ UNCHANGED notStartupVars
    /\ effects = <<>>
    /\ queued # rendered
    /\ rendered' = queued
    /\ effects' = EffectsAfter(rendered, queued)
    /\ UNCHANGED <<storage, storedBefore, queued, loadRan>>

StartupNext ==
    \/ RunHydrate
    \/ RunConvert
    \/ RunSaveTasks
    \/ RunSaveIr
    \/ RunSaveKcs
    \/ Render

-----------------------------------------------------------------------------
(* Properties of the start of Home *)

\* the component has started and nothing is left to run
AtRest == loadRan /\ effects = <<>> /\ queued = rendered

\* the item is a value the component could have saved under the key
WellFormed(item) == item # NoItem /\ item # Corrupt

\* C16 (as claimed): nothing is written to storage before the load has run;
\* and when the component has started and come to rest without any action of
\* the user, each of the keys for the tasks, the ruleset text, the knowledge
\* text and the knowledge chunks that held a value still holds that value,
\* also when the value under another key did not parse during the load.
C16_StartupKeepsStorage ==
    /\ ~loadRan => storage = storedBefore
    /\ AtRest =>
           \A key \in {"tasks", "irRaw", "kcsRaw", "kcsChunks"} :
               WellFormed(storedBefore[key]) =>
                   storage[key] = storedBefore[key]

-----------------------------------------------------------------------------
(* Specifications *)

InitChunker ==
    /\ ChunkerInit
    /\ ClassifierIdle /\ NormalizerIdle /\ CodecIdle /\ HomeIdle /\ StartupIdle

SpecChunker == InitChunker /\ [][ChunkerNext]_vars

InitClassifier ==
    /\ ClassifierInit
    /\ ChunkerIdle /\ NormalizerIdle /\ CodecIdle /\ HomeIdle /\ StartupIdle

SpecClassifier == InitClassifier /\ [][ClassifierNext]_vars

InitNormalizer ==
    /\ NormalizerInit
    /\ ChunkerIdle /\ ClassifierIdle /\ CodecIdle /\ HomeIdle /\ StartupIdle

SpecNormalizer == InitNormalizer /\ [][NormalizerNext]_vars

InitCodec ==
    /\ CodecInit
    /\ ChunkerIdle /\ ClassifierIdle /\ NormalizerIdle /\ HomeIdle
    /\ StartupIdle

SpecCodec == InitCodec /\ [][CodecNext]_vars

InitStartup ==
    /\ StartupInit
    /\ ChunkerIdle /\ ClassifierIdle /\ NormalizerIdle /\ CodecIdle
    /\ HomeIdle

SpecStartup == InitStartup /\ [][StartupNext]_vars

Init ==
    /\ HomeInit
    /\ ChunkerIdle /\ ClassifierIdle /\ NormalizerIdle /\ CodecIdle
    /\ StartupIdle

Next == HomeNext

Spec == Init /\ [][Next]_vars

=============================================================================
